---- MODULE Spec2Model ----
(***************************************************************************)
(* Model of rl_agents/agents/common/models.py: the configurable network    *)
(* blocks MultiLayerPerceptron, DuelingNetwork, EgoAttention and           *)
(* EgoAttentionNetwork, the attention primitive and model_factory.         *)
(*                                                                         *)
(* Tensors are modelled by their shapes (sequences of dimensions).  Where  *)
(* a claim is about values (the attention probabilities, the dueling       *)
(* recombination) the values are carried as exact fractions.  The outputs  *)
(* of the learned linear maps (attention scores, head outputs) are inputs  *)
(* drawn from small sets, since the parameters are arbitrary.              *)
(*                                                                         *)
(* A configuration dict is a function from key strings to values; a key    *)
(* that is absent from the dict is absent from the function's DOMAIN.      *)
(***************************************************************************)
EXTENDS Integers, Sequences, FiniteSets, TLC

VARIABLES config, net, training, pc, res

vars == <<config, net, training, pc, res>>

----------------------------------------------------------------------------
(* Bounds of the model *)

MaxBatch == 2
MaxOthers == 1

----------------------------------------------------------------------------
(* Python values *)

\* Python's None, for the integer-valued keys "in" and "out"
None == -1

\* truth value of an integer-or-None config entry: None and 0 are falsy
Truthy(v) == v # None /\ v # 0

\* dict.get(key, default)
Get(d, k, default) == IF k \in DOMAIN d THEN d[k] ELSE default

\* d[k] = v
Put(d, k, v) == [x \in (DOMAIN d) \cup {k} |-> IF x = k THEN v ELSE d[x]]

\* the keys whose values are nested configuration dicts
NestedKeys == {"base_module", "embedding_layer", "attention_layer", "output_layer"}

EmptyDict == [x \in {} |-> 0]

\* Configurable.rec_update(d, u): override d with u, recursing into nested dicts
RECURSIVE RecUpdate(_, _)
RecUpdate(d, u) ==
    [k \in (DOMAIN d) \cup (DOMAIN u) |->
        IF k \notin DOMAIN u THEN d[k]
        ELSE IF k \in NestedKeys THEN RecUpdate(Get(d, k, EmptyDict), u[k])
        ELSE u[k]]

\* Configurable.__init__: self.config is the component's defaults overridden
\* by the given config (unset keys fall back to the defaults)
Configurable(defaults, cfg) == RecUpdate(defaults, cfg)

\* Configurable.__init__ also completes the caller's dict in place
CompletedConfig(defaults, cfg) == RecUpdate(cfg, Configurable(defaults, cfg))

\* outcome of a constructor or of a call
Raise(e) == [ok |-> FALSE, err |-> e]

----------------------------------------------------------------------------
(* Tensor shapes *)

RECURSIVE Numel(_)
Numel(s) == IF s = <<>> THEN 1 ELSE Head(s) * Numel(Tail(s))

Last(s) == s[Len(s)]

ButLast(s) == SubSeq(s, 1, Len(s) - 1)

\* nn.Linear(i, o) applied to a tensor of shape s: the last dimension must be i
LinearShape(lin, s) ==
    IF Len(s) = 0 \/ Last(s) # lin[1] THEN Raise("RuntimeError")
    ELSE [ok |-> TRUE, shape |-> ButLast(s) \o <<lin[2]>>]

\* tensor.view(target) / tensor.reshape(target): element counts must agree
ViewShape(s, target) ==
    IF Numel(s) # Numel(target) THEN Raise("RuntimeError")
    ELSE [ok |-> TRUE, shape |-> target]

\* x.reshape(x.shape[0], -1)
FlattenShape(s) ==
    IF s[1] = 0 THEN Raise("RuntimeError")
    ELSE [ok |-> TRUE, shape |-> <<s[1], Numel(Tail(s))>>]

----------------------------------------------------------------------------
(* activation_factory *)

activation_factory(activation_type) ==
    IF activation_type \in {"RELU", "TANH"}
    THEN [ok |-> TRUE, fn |-> activation_type]
    ELSE Raise("ValueError")

----------------------------------------------------------------------------
(* MultiLayerPerceptron *)

MLPDefaultConfig ==
    [in |-> None, layers |-> <<64, 64>>, activation |-> "RELU",
     reshape |-> TRUE, out |-> None]

\* nn.Linear(i, o): a width of None is rejected by the tensor runtime
LinearOk(i, o) == i # None /\ o # None

MLPSizes(c) == <<c["in"]>> \o c["layers"]

\* MultiLayerPerceptron.__init__(config)
MLPInit(cfg) ==
    LET c == Configurable(MLPDefaultConfig, cfg)
        sizes == MLPSizes(c)
        act == activation_factory(c["activation"])
        layers_list == [i \in 1..(Len(sizes) - 1) |-> <<sizes[i], sizes[i + 1]>>]
    IN  IF ~act.ok THEN Raise(act.err)
        ELSE IF \E i \in 1..Len(layers_list) :
                    ~LinearOk(layers_list[i][1], layers_list[i][2])
        THEN Raise("TypeError")
        ELSE IF Truthy(Get(c, "out", None)) /\ ~LinearOk(Last(sizes), c["out"])
        THEN Raise("TypeError")
        ELSE [ok |-> TRUE,
              net |-> [type |-> "MultiLayerPerceptron",
                       config |-> c,
                       layers |-> layers_list,
                       predict |-> IF Truthy(Get(c, "out", None))
                                   THEN <<Last(sizes), c["out"]>> ELSE <<>>]]

\* for layer in self.layers: x = self.activation(layer(x))
RECURSIVE ApplyLayers(_, _)
ApplyLayers(layers, s) ==
    IF layers = <<>> THEN [ok |-> TRUE, shape |-> s]
    ELSE LET r == LinearShape(Head(layers), s)
         IN  IF ~r.ok THEN r ELSE ApplyLayers(Tail(layers), r.shape)

\* MLPPredict without the output projection
MLPPredictSkipped(m, r) == r

\* if self.config.get("out", None): x = self.predict(x)
MLPPredict(m, r) ==
    IF ~r.ok THEN r
    ELSE IF Truthy(Get(m.config, "out", None)) THEN LinearShape(m.predict, r.shape)
    ELSE r

\* MultiLayerPerceptron.forward(x), on the shape of x
MLPForward(m, s) ==
    LET x == IF m.config["reshape"] THEN FlattenShape(s)
             ELSE [ok |-> TRUE, shape |-> s]
    IN  IF ~x.ok THEN x
        ELSE MLPPredict(m, ApplyLayers(m.layers, x.shape))

\* MultiLayerPerceptron(config), with the dict the caller passed as left by
\* the constructor
MLPNew(cfg) ==
    LET r == MLPInit(cfg)
        done == CompletedConfig(MLPDefaultConfig, cfg)
    IN  IF r.ok THEN [ok |-> TRUE, net |-> r.net, cfg |-> done]
        ELSE [ok |-> FALSE, err |-> r.err, cfg |-> done]

----------------------------------------------------------------------------
(* model_factory and the composite constructors call each other *)

RECURSIVE model_factory(_)

RECURSIVE ModuleForward(_, _)

----------------------------------------------------------------------------
(* DuelingNetwork *)

DuelingDefaultConfig ==
    [in |-> None,
     base_module |-> [type |-> "MultiLayerPerceptron", out |-> None],
     out |-> None]

\* the width the two heads are built with: config["base_module"]["layers"][-1]
DuelingHeadIn(base_cfg) == Last(base_cfg["layers"])

\* DuelingNetwork.__init__(config)
DuelingInit(cfg) ==
    LET c0 == Configurable(DuelingDefaultConfig, cfg)
        c1 == Put(c0, "base_module", Put(c0["base_module"], "in", c0["in"]))
        base == model_factory(c1["base_module"])
        c2 == Put(c1, "base_module", base.cfg)
        bm == c2["base_module"]
    IN  IF ~base.ok THEN Raise(base.err)
        ELSE IF "layers" \notin DOMAIN bm THEN Raise("KeyError")
        ELSE IF bm["layers"] = <<>> THEN Raise("IndexError")
        ELSE IF ~LinearOk(DuelingHeadIn(bm), c2["out"]) THEN Raise("TypeError")
        ELSE [ok |-> TRUE,
              net |-> [type |-> "DuelingNetwork",
                       config |-> c2,
                       base_module |-> base.net,
                       advantage |-> <<DuelingHeadIn(bm), c2["out"]>>,
                       value |-> <<DuelingHeadIn(bm), 1>>]]

DuelingNew(cfg) ==
    LET r == DuelingInit(cfg)
        done == CompletedConfig(DuelingDefaultConfig, cfg)
    IN  IF r.ok THEN [ok |-> TRUE, net |-> r.net, cfg |-> done]
        ELSE [ok |-> FALSE, err |-> r.err, cfg |-> done]

\* tensor.expand(-1, n) of a tensor whose last dimension is 1: only a
\* two-dimensional tensor can be expanded with two sizes
ExpandShape(s, n) ==
    IF Len(s) # 2 THEN Raise("RuntimeError")
    ELSE [ok |-> TRUE, shape |-> <<s[1], n>>]

\* DuelingNetwork.forward(x), on the shape of x
DuelingForward(m, s) ==
    LET x == ModuleForward(m.base_module, s)
        advantage == LinearShape(m.advantage, x.shape)
        value == LinearShape(m.value, x.shape)
    IN  IF ~x.ok THEN x
        ELSE IF ~advantage.ok THEN advantage
        ELSE IF ~value.ok THEN value
        ELSE ExpandShape(value.shape, m.config["out"])

SumSeq(f) ==
    LET RECURSIVE S(_)
        S(i) == IF i = 0 THEN 0 ELSE f[i] + S(i - 1)
    IN  S(Len(f))

\* DuelingQ without the mean advantage subtracted
DuelingQNoMean(value, advantage) ==
    LET n == Len(advantage)
    IN  [a \in 1..n |-> [num |-> n * value + n * advantage[a], den |-> n]]

\* value + advantage - advantage.mean(1)..., for one batch row, as the exact
\* fraction num/den with den the number of actions
DuelingQ(value, advantage) ==
    LET n == Len(advantage)
    IN  [a \in 1..n |->
            [num |-> n * value + n * advantage[a] - SumSeq(advantage),
             den |-> n]]

----------------------------------------------------------------------------
(* attention: scaled dot-product attention *)

\* the value scores.masked_fill(mask, -1e9) writes
MaskedScore == -1000000000

\* probabilities are fractions num/den; exp is tabulated in units of 1e-8
ExpTable ==
    <<100000000, 36787944, 13533528, 4978706, 1831563, 673794, 247875,
      91188, 33546, 12340, 4539, 1670, 614, 226, 83, 30, 11, 4, 1>>

\* exp(-d) for an integer d >= 0, in units of 1/ExpScale (0 once it underflows)
ExpNeg(d) == IF d < Len(ExpTable) THEN ExpTable[d + 1] ELSE 0

MaxOf(row) == CHOOSE m \in {row[i] : i \in DOMAIN row} :
                  \A i \in DOMAIN row : row[i] <= m

\* F.softmax(scores, dim=-1) on one row of scores
Softmax(row) ==
    LET e == [i \in DOMAIN row |-> ExpNeg(MaxOf(row) - row[i])]
    IN  [i \in DOMAIN row |-> [num |-> e[i], den |-> SumSeq(e)]]

\* MaskedFill leaving the scores as they are
MaskedFillSkipped(row, maskrow) == row

\* scores.masked_fill(mask, -1e9) on one row
MaskedFill(row, maskrow) ==
    [i \in DOMAIN row |-> IF maskrow[i] THEN MaskedScore ELSE row[i]]

\* nn.Dropout(p): a new module is in training mode
Dropout(p) == [p |-> p, training |-> TRUE]

\* dropout(p_attn) on one row: in training mode an element is zeroed (keep[i]
\* false, possible when p > 0) or scaled by 1/(1-p); p is the fraction
\* p[1]/p[2]
ApplyDropout(dropout, row, keep) ==
    IF ~dropout.training \/ dropout.p[1] = 0 THEN row
    ELSE [i \in DOMAIN row |->
            [num |-> IF keep[i] THEN row[i].num * dropout.p[2] ELSE 0,
             den |-> row[i].den * (dropout.p[2] - dropout.p[1])]]

NoMask == [present |-> FALSE]

NoDropout == [present |-> FALSE]

\* attention(query, key, value, mask, dropout) for one batch row.
\* scores[h] stands for the row matmul(query, key^T) / sqrt(d_k) of head h,
\* mask.m[h] for the mask row of head h, keep[h] for the random draw of the
\* dropout on head h.  Returns p_attn per head.
attention(scores, mask, dropout, keep) ==
    [h \in DOMAIN scores |->
        LET filled == IF mask.present THEN MaskedFill(scores[h], mask.m[h])
                      ELSE scores[h]
            p_attn == Softmax(filled)
        IN  IF dropout.present THEN ApplyDropout(dropout.module, p_attn, keep[h])
            ELSE p_attn]

\* shapes of attention's results: scores are (batch, heads, q, kv)
AttentionShape(query, key, value) ==
    IF Len(query) # 4 \/ Len(key) # 4 \/ Len(value) # 4 THEN Raise("RuntimeError")
    ELSE IF query[1] # key[1] \/ query[2] # key[2] \/ query[4] # key[4]
    THEN Raise("RuntimeError")
    ELSE IF value[1] # key[1] \/ value[2] # key[2] \/ value[3] # key[3]
    THEN Raise("RuntimeError")
    ELSE [ok |-> TRUE,
          shape |-> <<query[1], query[2], query[3], value[4]>>,
          attn_shape |-> <<query[1], query[2], query[3], key[3]>>]

----------------------------------------------------------------------------
(* EgoAttention *)

EgoAttentionDefaultConfig ==
    [feature_size |-> 64, heads |-> 4, dropout_factor |-> <<0, 1>>]

\* int(feature_size / heads)
FeaturesPerHead(feature_size, heads) == feature_size \div heads

\* EgoAttention.__init__(config)
EgoAttentionInit(cfg) ==
    LET c == Configurable(EgoAttentionDefaultConfig, cfg)
    IN  IF c["heads"] = 0 THEN Raise("ZeroDivisionError")
        ELSE [ok |-> TRUE,
              net |-> [type |-> "EgoAttention",
                       config |-> c,
                       features_per_head |->
                           FeaturesPerHead(c["feature_size"], c["heads"]),
                       value_all |-> <<c["feature_size"], c["feature_size"]>>,
                       key_all |-> <<c["feature_size"], c["feature_size"]>>,
                       query_ego |-> <<c["feature_size"], c["feature_size"]>>,
                       attention_combine |->
                           <<c["feature_size"], c["feature_size"]>>]]

EgoAttentionNew(cfg) ==
    LET r == EgoAttentionInit(cfg)
        done == CompletedConfig(EgoAttentionDefaultConfig, cfg)
    IN  IF r.ok THEN [ok |-> TRUE, net |-> r.net, cfg |-> done]
        ELSE [ok |-> FALSE, err |-> r.err, cfg |-> done]

\* CatDim1 refusing a tensor without entities
CatDim1NonEmpty(a, b) ==
    IF Len(a) # 3 \/ Len(b) # 3 THEN Raise("RuntimeError")
    ELSE IF a[1] # b[1] \/ a[3] # b[3] \/ b[2] = 0 THEN Raise("RuntimeError")
    ELSE [ok |-> TRUE, shape |-> <<a[1], a[2] + b[2], a[3]>>]

\* torch.cat((a, b), dim=1) of two three-dimensional tensors
CatDim1(a, b) ==
    IF Len(a) # 3 \/ Len(b) # 3 THEN Raise("RuntimeError")
    ELSE IF a[1] # b[1] \/ a[3] # b[3] THEN Raise("RuntimeError")
    ELSE [ok |-> TRUE, shape |-> <<a[1], a[2] + b[2], a[3]>>]

\* x.view(b, n, heads, features_per_head).permute(0, 2, 1, 3)
HeadsShape(lin, s, b, n, heads, fph) ==
    LET x == LinearShape(lin, s)
        v == ViewShape(x.shape, <<b, n, heads, fph>>)
    IN  IF ~x.ok THEN x
        ELSE IF ~v.ok THEN v
        ELSE [ok |-> TRUE, shape |-> <<b, heads, n, fph>>]

\* MaskShape viewing the mask as one entry too many per row
MaskShapeOffByOne(mask_shape, b, n, heads) ==
    LET v == ViewShape(mask_shape, <<b, 1, 1, n + 1>>)
    IN  IF ~v.ok THEN v ELSE [ok |-> TRUE, shape |-> <<b, heads, 1, n + 1>>]

\* mask.view((batch_size, 1, 1, n_entities)).repeat((1, heads, 1, 1))
MaskShape(mask_shape, b, n, heads) ==
    LET v == ViewShape(mask_shape, <<b, 1, 1, n>>)
    IN  IF ~v.ok THEN v ELSE [ok |-> TRUE, shape |-> <<b, heads, 1, n>>]

\* the shape of a + b under broadcasting
RECURSIVE BroadcastShape(_, _)
BroadcastShape(a, b) ==
    IF a = <<>> THEN [ok |-> TRUE, shape |-> b]
    ELSE IF b = <<>> THEN [ok |-> TRUE, shape |-> a]
    ELSE LET r == BroadcastShape(ButLast(a), ButLast(b))
             x == Last(a)
             y == Last(b)
         IN  IF ~r.ok THEN r
             ELSE IF x # y /\ x # 1 /\ y # 1 THEN Raise("RuntimeError")
             ELSE [ok |-> TRUE, shape |-> r.shape \o <<IF x = 1 THEN y ELSE x>>]

\* ego.squeeze(1)
Squeeze1(s) ==
    IF Len(s) >= 2 /\ s[2] = 1 THEN <<s[1]>> \o SubSeq(s, 3, Len(s)) ELSE s

\* the shapes along EgoAttention.forward(ego, others, mask); mask_shape is
\* <<>> when mask is None
EgoAttentionShapes(m, ego, others, mask_shape) ==
    LET fs == m.config["feature_size"]
        heads == m.config["heads"]
        fph == m.features_per_head
        batch_size == others[1]
        n_entities == others[2] + 1
        ego_v == ViewShape(ego, <<batch_size, 1, fs>>)
        input_all == CatDim1(ego_v.shape, others)
        key_all == HeadsShape(m.key_all, input_all.shape, batch_size,
                              n_entities, heads, fph)
        value_all == HeadsShape(m.value_all, input_all.shape, batch_size,
                                n_entities, heads, fph)
        query_ego == HeadsShape(m.query_ego, ego, batch_size, 1, heads, fph)
        mk == IF mask_shape = <<>> THEN [ok |-> TRUE]
              ELSE MaskShape(mask_shape, batch_size, n_entities, heads)
        att == AttentionShape(query_ego.shape, key_all.shape, value_all.shape)
        value == ViewShape(att.shape, <<batch_size, fs>>)
        combined == LinearShape(m.attention_combine, value.shape)
        result == BroadcastShape(combined.shape, Squeeze1(ego))
    IN  IF Len(others) < 2 THEN Raise("IndexError")
        ELSE IF ~ego_v.ok THEN ego_v
        ELSE IF ~input_all.ok THEN input_all
        ELSE IF ~key_all.ok THEN key_all
        ELSE IF ~value_all.ok THEN value_all
        ELSE IF ~query_ego.ok THEN query_ego
        ELSE IF ~mk.ok THEN mk
        ELSE IF ~att.ok THEN att
        ELSE IF ~value.ok THEN value
        ELSE IF ~combined.ok THEN combined
        ELSE IF ~result.ok THEN result
        ELSE [ok |-> TRUE, shape |-> result.shape,
              attn_shape |-> att.attn_shape]

\* the mask handed to attention: one row of the mask, repeated for each head
RepeatMask(maskrow, heads) == [present |-> TRUE, m |-> [h \in 1..heads |-> maskrow]]

\* EgoAttention.forward(ego, others, mask): the shapes, and for one batch row
\* the attention matrix.  mask is NoMask or [present, shape, row].
EgoAttentionForward(m, ego, others, mask, scores, keep) ==
    LET sh == EgoAttentionShapes(m, ego, others,
                                 IF mask.present THEN mask.shape ELSE <<>>)
        am == IF mask.present THEN RepeatMask(mask.row, m.config["heads"])
              ELSE NoMask
        dp == [present |-> TRUE, module |-> Dropout(m.config["dropout_factor"])]
    IN  IF ~sh.ok THEN sh
        ELSE [ok |-> TRUE, shape |-> sh.shape, attn_shape |-> sh.attn_shape,
              attention_matrix |-> attention(scores, am, dp, keep)]

----------------------------------------------------------------------------
(* EgoAttentionNetwork *)

EgoAttentionNetworkDefaultConfig ==
    [in |-> None,
     out |-> None,
     n_head |-> 4,
     presence_feature_idx |-> 0,
     embedding_layer |-> [type |-> "MultiLayerPerceptron",
                          layers |-> <<128, 128, 128>>,
                          reshape |-> FALSE],
     attention_layer |-> [type |-> "EgoAttention",
                          feature_size |-> 128,
                          heads |-> 4],
     output_layer |-> [type |-> "MultiLayerPerceptron",
                       layers |-> <<128, 128, 128>>,
                       reshape |-> FALSE]]

\* if not config["embedding_layer"]["in"]: config["embedding_layer"]["in"] = config["in"]
InheritEmbeddingIn(c) ==
    IF ~Truthy(c["embedding_layer"]["in"])
    THEN Put(c, "embedding_layer", Put(c["embedding_layer"], "in", c["in"]))
    ELSE c

\* config["output_layer"]["in"] = config["attention_layer"]["feature_size"]
\* config["output_layer"]["out"] = config["out"]
InjectOutputLayer(c) ==
    Put(c, "output_layer",
        Put(Put(c["output_layer"], "in", c["attention_layer"]["feature_size"]),
            "out", c["out"]))

\* EgoAttentionNetwork.__init__(config): self.config is the caller's dict,
\* so cfg in the result is the dict as the constructor leaves it
EgoAttentionNetworkNew(cfg) ==
    LET c0 == CompletedConfig(EgoAttentionNetworkDefaultConfig, cfg)
        c1 == InheritEmbeddingIn(c0)
        c2 == InjectOutputLayer(c1)
        emb == model_factory(c2["embedding_layer"])
        c3 == Put(c2, "embedding_layer", emb.cfg)
        att == EgoAttentionNew(c3["attention_layer"])
        c4 == Put(c3, "attention_layer", att.cfg)
        outl == model_factory(c4["output_layer"])
        c5 == Put(c4, "output_layer", outl.cfg)
    IN  IF "in" \notin DOMAIN c0["embedding_layer"]
        THEN [ok |-> FALSE, err |-> "KeyError", cfg |-> c0]
        ELSE IF ~emb.ok THEN [ok |-> FALSE, err |-> emb.err, cfg |-> c3]
        ELSE IF ~att.ok THEN [ok |-> FALSE, err |-> att.err, cfg |-> c4]
        ELSE IF ~outl.ok THEN [ok |-> FALSE, err |-> outl.err, cfg |-> c5]
        ELSE [ok |-> TRUE, cfg |-> c5,
              net |-> [type |-> "EgoAttentionNetwork",
                       config |-> c5,
                       ego_embedding |-> emb.net,
                       others_embedding |-> emb.net,
                       attention_layer |-> att.net,
                       output_layer |-> outl.net]]

\* model_factory(config)
model_factory(cfg) ==
    IF "type" \notin DOMAIN cfg THEN [ok |-> FALSE, err |-> "KeyError", cfg |-> cfg]
    ELSE IF cfg["type"] = "MultiLayerPerceptron" THEN MLPNew(cfg)
    ELSE IF cfg["type"] = "DuelingNetwork" THEN DuelingNew(cfg)
    ELSE IF cfg["type"] = "EgoAttentionNetwork" THEN EgoAttentionNetworkNew(cfg)
    ELSE [ok |-> FALSE, err |-> "ValueError", cfg |-> cfg]

\* module(x) for a block built by model_factory, on the shape of x
ModuleForward(m, s) ==
    CASE m.type = "MultiLayerPerceptron" -> MLPForward(m, s)
      [] m.type = "DuelingNetwork" -> DuelingForward(m, s)

\* EgoAttentionNetwork.split_input(x): x is (batch, entities, features) and
\* presence[i] tells whether the presence feature of entity i is >= 0.5
split_input(m, x, presence) ==
    LET idx == m.config["presence_feature_idx"]
        w == IF 0 <= idx /\ idx < x[3] THEN 1 ELSE 0
    IN  [ego |-> <<x[1], 1, x[3]>>,
         others |-> <<x[1], x[2] - 1, x[3]>>,
         mask |-> [present |-> TRUE,
                   shape |-> <<x[1], x[2], w>>,
                   row |-> [i \in 1..x[2] |-> ~presence[i]]]]

\* the attention layer as called by forward and by get_attention_matrix
EgoAttentionNetworkAttend(m, x, presence, scores, keep) ==
    LET sp == split_input(m, x, presence)
        ego == ModuleForward(m.ego_embedding, sp.ego)
        others == ModuleForward(m.others_embedding, sp.others)
    IN  IF ~ego.ok THEN ego
        ELSE IF ~others.ok THEN others
        ELSE EgoAttentionForward(m.attention_layer, ego.shape, others.shape,
                                 sp.mask, scores, keep)

\* EgoAttentionNetwork.forward(x)
EgoAttentionNetworkForward(m, x, presence, scores, keep) ==
    LET att == EgoAttentionNetworkAttend(m, x, presence, scores, keep)
    IN  IF ~att.ok THEN att ELSE ModuleForward(m.output_layer, att.shape)

\* EgoAttentionNetwork.get_attention_matrix(x)
get_attention_matrix(m, x, presence, scores, keep) ==
    LET att == EgoAttentionNetworkAttend(m, x, presence, scores, keep)
    IN  IF ~att.ok THEN att
        ELSE [ok |-> TRUE, shape |-> att.attn_shape,
              attention_matrix |-> att.attention_matrix]

----------------------------------------------------------------------------
(* The configurations a caller constructs the blocks from *)

\* a key that is either absent or bound to one of vals
Opt(k, vals) == {EmptyDict} \cup {(k :> v) : v \in vals}

Widths == {2, 3}

MLPConfigs ==
    {("type" :> "MultiLayerPerceptron") @@ a @@ b @@ c @@ d @@ e :
        a \in Opt("in", {None} \cup Widths),
        b \in Opt("layers", {<<>>, <<2>>, <<3, 2>>}),
        c \in Opt("out", {None, 2, 3}),
        d \in Opt("reshape", {FALSE}),
        e \in Opt("activation", {"TANH", "SIGMOID"})}

BaseModuleConfigs ==
    {a @@ b @@ c :
        a \in Opt("type", {"MultiLayerPerceptron", "DuelingNetwork", "Unknown"}),
        b \in Opt("layers", {<<>>, <<3>>, <<3, 2>>}),
        c \in Opt("out", {None, 2, 3})}

DuelingConfigs ==
    {("type" :> "DuelingNetwork") @@ a @@ b @@ c :
        a \in Opt("in", {None, 2}),
        b \in Opt("out", {None, 2}),
        c \in Opt("base_module", BaseModuleConfigs)}

Half == <<1, 2>>

AttentionLayerConfigs ==
    {("type" :> "EgoAttention") @@ a @@ b @@ c :
        a \in Opt("feature_size", {2, 4}),
        b \in Opt("heads", {2, 3}),
        c \in Opt("dropout_factor", {Half})}

EmbeddingConfigs ==
    {a @@ b :
        a \in Opt("in", {None, 3}),
        b \in Opt("layers", {<<4>>})}
        \cup {[in |-> None, layers |-> <<4>>, reshape |-> TRUE]}

OutputConfigs ==
    {EmptyDict, [in |-> 7, out |-> 5, layers |-> <<3>>]}

NetworkAttentionConfigs ==
    {EmptyDict,
     [feature_size |-> 4, heads |-> 2],
     [feature_size |-> 4, heads |-> 2, dropout_factor |-> Half],
     [feature_size |-> 4, heads |-> 3]}

EgoAttentionNetworkConfigs ==
    {("type" :> "EgoAttentionNetwork") @@ a @@ b @@ d @@ e @@ f :
        a \in Opt("in", {2}),
        b \in {EmptyDict, [out |-> 3], [out |-> 3, presence_feature_idx |-> 1]},
        d \in {("embedding_layer" :> c) : c \in EmbeddingConfigs},
        e \in {("attention_layer" :> c) : c \in NetworkAttentionConfigs},
        f \in Opt("output_layer", OutputConfigs \ {EmptyDict})}

UnknownConfigs == {[type |-> "Unknown"]}

\* the dense blocks, and the attention blocks
DenseConfigs == MLPConfigs \cup DuelingConfigs \cup UnknownConfigs

FactoryConfigs == DenseConfigs \cup EgoAttentionNetworkConfigs

----------------------------------------------------------------------------
(* The inputs of the calls *)

Batches == 1..MaxBatch

\* (batch, features) and (batch, entities, features)
InputShapes ==
    {<<b, w>> : b \in Batches, w \in Widths}
        \cup {<<b, n, w>> : b \in Batches, n \in 1..(MaxOthers + 1), w \in Widths}

\* outputs of the advantage head and of the value head
AdvantageVals == {-1, 2}

ValueVals == {0, 1}

\* attention scores: ordinary ones, and two just above the masking value
ScoreVals == {0, 2, MaskedScore + 13, MaskedScore + 14}

Reverse(row) == [i \in DOMAIN row |-> row[Len(row) + 1 - i]]

\* per-head rows built from one row: odd heads get it, even heads get it reversed
PerHead(row, heads) ==
    [h \in 1..heads |-> IF h % 2 = 1 THEN row ELSE Reverse(row)]

ScoreMatrices(vals, heads, n) == {PerHead(r, heads) : r \in [1..n -> vals]}

\* the scores tried through the network
NetworkScoreVals == {0, MaskedScore + 13}

\* the draws of the dropout: nothing is dropped when p = 0
KeepMasks(p, heads, n) ==
    IF p[1] = 0 THEN {PerHead([i \in 1..n |-> TRUE], heads)}
    ELSE {PerHead(k, heads) : k \in [1..n -> BOOLEAN]}

----------------------------------------------------------------------------
(* The state machine: a caller picks a configuration, constructs a block   *)
(* from it, switches it between training and evaluation mode and calls it. *)
(* res holds the last call with its arguments until the caller drops it.   *)

NoNet == [type |-> "none"]

NoRes == [op |-> "none"]

\* the caller holds one of configs, or wants no block at all
InitWith(configs) ==
    /\ \/ /\ config \in configs
          /\ pc = "config"
       \/ /\ config = EmptyDict
          /\ pc = "ready"
    /\ net = NoNet
    /\ training = TRUE
    /\ res = NoRes

Init == InitWith(FactoryConfigs \cup AttentionLayerConfigs)

\* the constructor has run: config is the caller's dict as it left it, and
\* res recalls the dict as it was given
Constructed(r) ==
    /\ config' = r.cfg
    /\ IF r.ok
       THEN /\ net' = r.net
            /\ pc' = "ready"
            /\ res' = [op |-> "construct", args |-> [config |-> config],
                       out |-> [ok |-> TRUE]]
       ELSE /\ net' = NoNet
            /\ pc' = "failed"
            /\ res' = [op |-> "construct", args |-> [config |-> config],
                       out |-> Raise(r.err)]
    /\ UNCHANGED training

\* net = model_factory(config)
Construct ==
    /\ pc = "config"
    /\ config \in FactoryConfigs
    /\ Constructed(model_factory(config))

\* net = EgoAttention(config)
ConstructEgoAttention ==
    /\ pc = "config"
    /\ config \in AttentionLayerConfigs
    /\ Constructed(EgoAttentionNew(config))

\* net.train()
Train ==
    /\ pc = "ready"
    /\ net.type # "none"
    /\ training' = TRUE
    /\ UNCHANGED <<config, net, pc, res>>

\* net.eval()
Eval ==
    /\ pc = "ready"
    /\ net.type # "none"
    /\ training' = FALSE
    /\ UNCHANGED <<config, net, pc, res>>

Called(op, args, out) ==
    /\ res' = [op |-> op, args |-> args, out |-> out]
    /\ pc' = "called"
    /\ UNCHANGED <<config, net, training>>

\* net(x) for a MultiLayerPerceptron
CallMLP ==
    /\ pc = "ready"
    /\ net.type = "MultiLayerPerceptron"
    /\ \E x \in InputShapes :
          Called("MultiLayerPerceptron.forward", [x |-> x], MLPForward(net, x))

\* net(x) for a DuelingNetwork: the shapes and, row by row, the Q-values
CallDueling ==
    /\ pc = "ready"
    /\ net.type = "DuelingNetwork"
    /\ \E x \in InputShapes :
          LET sh == DuelingForward(net, x)
          IN  IF ~sh.ok
              THEN Called("DuelingNetwork.forward", [x |-> x], sh)
              ELSE \E advantage \in [1..sh.shape[1] -> [1..sh.shape[2] -> AdvantageVals]],
                      value \in [1..sh.shape[1] -> ValueVals] :
                      Called("DuelingNetwork.forward",
                             [x |-> x, advantage |-> advantage, value |-> value],
                             [ok |-> TRUE, shape |-> sh.shape,
                              q |-> [b \in 1..sh.shape[1] |->
                                        DuelingQ(value[b], advantage[b])]])

\* the masks a caller may pass to EgoAttention.forward for n others:
\* none, one entry per other, one entry per entity
MaskArgs(b, n) ==
    {NoMask}
        \cup UNION {{[present |-> TRUE, shape |-> <<b, k>>, row |-> r] :
                        r \in [1..k -> BOOLEAN]} : k \in {n, n + 1}}

\* net(ego, others, mask) for an EgoAttention layer
CallEgoAttention ==
    /\ pc = "ready"
    /\ net.type = "EgoAttention"
    /\ \E b \in Batches, n \in 0..MaxOthers, f \in {2, 4}, g \in {2, 4} :
          LET ego == <<b, 1, f>>
              others == <<b, n, g>>
          IN  \E mask \in MaskArgs(b, n) :
                LET args == [ego |-> ego, others |-> others, mask |-> mask]
                    sh == EgoAttentionShapes(net, ego, others,
                              IF mask.present THEN mask.shape ELSE <<>>)
                IN  IF ~sh.ok
                    THEN Called("EgoAttention.forward", args, sh)
                    ELSE \E scores \in ScoreMatrices(ScoreVals, net.config["heads"], n + 1),
                            keep \in KeepMasks(net.config["dropout_factor"],
                                               net.config["heads"], n + 1) :
                            Called("EgoAttention.forward",
                                   args @@ [scores |-> scores, keep |-> keep],
                                   EgoAttentionForward(net, ego, others, mask,
                                                       scores, keep))

NetworkInputs ==
    {<<b, n, w>> : b \in Batches, n \in 1..(MaxOthers + 1), w \in Widths}

\* net(x) for an EgoAttentionNetwork; the attention matrix is dropped, so
\* the scores do not matter to the result
CallNetwork ==
    /\ pc = "ready"
    /\ net.type = "EgoAttentionNetwork"
    /\ \E x \in NetworkInputs :
          LET heads == net.config["attention_layer"]["heads"]
              ones == [i \in 1..x[2] |-> TRUE]
              zeros == PerHead([i \in 1..x[2] |-> 0], heads)
          IN  Called("EgoAttentionNetwork.forward", [x |-> x],
                     EgoAttentionNetworkForward(net, x, ones, zeros,
                                                PerHead(ones, heads)))

\* net.get_attention_matrix(x)
CallGetAttentionMatrix ==
    /\ pc = "ready"
    /\ net.type = "EgoAttentionNetwork"
    /\ \E x \in NetworkInputs :
          LET heads == net.config["attention_layer"]["heads"]
              p == net.config["attention_layer"]["dropout_factor"]
              ones == [i \in 1..x[2] |-> TRUE]
              probe == get_attention_matrix(net, x, ones,
                           PerHead([i \in 1..x[2] |-> 0], heads),
                           PerHead(ones, heads))
          IN  IF ~probe.ok
              THEN Called("get_attention_matrix", [x |-> x], probe)
              ELSE \E presence \in [1..x[2] -> BOOLEAN],
                      scores \in ScoreMatrices(NetworkScoreVals, heads, x[2]),
                      keep \in KeepMasks(p, heads, x[2]) :
                      Called("get_attention_matrix",
                             [x |-> x, presence |-> presence,
                              scores |-> scores, keep |-> keep],
                             get_attention_matrix(net, x, presence, scores, keep))

\* the dropout argument of a direct call of attention
DropoutArgs ==
    {NoDropout}
        \cup {[present |-> TRUE, module |-> [Dropout(Half) EXCEPT !.training = t]] :
                 t \in BOOLEAN}

\* attention(query, key, value, mask, dropout) called directly
CallAttention ==
    /\ pc = "ready"
    /\ net.type = "none"
    /\ \E heads \in {1, 2}, n \in 1..(MaxOthers + 1), masked \in BOOLEAN,
          dropout \in DropoutArgs :
          \E scores \in ScoreMatrices(ScoreVals, heads, n),
             maskrow \in [1..n -> BOOLEAN],
             keep \in KeepMasks(IF dropout.present THEN Half ELSE <<0, 1>>, heads, n) :
             LET mask == IF masked THEN RepeatMask(maskrow, heads) ELSE NoMask
             IN  /\ masked \/ (\A i \in 1..n : ~maskrow[i])
                 /\ Called("attention",
                           [scores |-> scores, mask |-> mask,
                            dropout |-> dropout, keep |-> keep],
                           [ok |-> TRUE,
                            attention_matrix |->
                                attention(scores, mask, dropout, keep)])

\* the caller drops the result
Return ==
    /\ pc = "called"
    /\ pc' = "ready"
    /\ res' = NoRes
    /\ UNCHANGED <<config, net, training>>

Next ==
    \/ Construct
    \/ ConstructEgoAttention
    \/ Train
    \/ Eval
    \/ CallMLP
    \/ CallDueling
    \/ CallEgoAttention
    \/ CallNetwork
    \/ CallGetAttentionMatrix
    \/ CallAttention
    \/ Return

Spec == Init /\ [][Next]_vars

\* the dense blocks alone: MultiLayerPerceptron and DuelingNetwork
InitDense ==
    /\ config \in DenseConfigs
    /\ pc = "config"
    /\ net = NoNet
    /\ training = TRUE
    /\ res = NoRes

NextDense ==
    \/ Construct
    \/ CallMLP
    \/ CallDueling
    \/ Return

SpecDense == InitDense /\ [][NextDense]_vars

\* the attention blocks alone: attention, EgoAttention, EgoAttentionNetwork
InitAttention == InitWith(EgoAttentionNetworkConfigs \cup AttentionLayerConfigs)

NextAttention ==
    \/ Construct
    \/ ConstructEgoAttention
    \/ Train
    \/ Eval
    \/ CallEgoAttention
    \/ CallNetwork
    \/ CallGetAttentionMatrix
    \/ CallAttention
    \/ Return

SpecAttention == InitAttention /\ [][NextAttention]_vars

----------------------------------------------------------------------------
(* Properties of the dense blocks, under SpecDense *)

\* the width of the last dimension of what a block returns
ModuleOutWidth(m) ==
    IF m.type = "DuelingNetwork" THEN m.config["out"]
    ELSE IF m.predict # <<>> THEN m.predict[2]
    ELSE IF m.layers # <<>> THEN Last(m.layers)[2]
    ELSE m.config["in"]

\* in is set, layers is a list of positive widths, out is unset or positive
ValidMLPConfig(c) ==
    /\ c["in"] # None /\ c["in"] > 0
    /\ \A i \in 1..Len(c["layers"]) : c["layers"][i] > 0
    /\ (c["out"] = None \/ c["out"] > 0)

\* the input, flattened if the block reshapes, has the width the block expects
MatchingInput(c, x) ==
    IF c["reshape"] THEN Numel(Tail(x)) = c["in"] ELSE Last(x) = c["in"]

MLPCalled == pc = "called" /\ res.op = "MultiLayerPerceptron.forward"

\* C1: for a valid MultiLayerPerceptron configuration and an input of matching
\* width, forward returns a tensor whose last dimension is out when out is
\* configured, and the last entry of layers otherwise.
C1_OutputWidth ==
    (MLPCalled /\ ValidMLPConfig(net.config) /\ MatchingInput(net.config, res.args.x))
        => /\ res.out.ok
           /\ (net.config["out"] # None
                  => Last(res.out.shape) = net.config["out"])
           /\ (net.config["out"] = None /\ net.config["layers"] # <<>>
                  => Last(res.out.shape) = Last(net.config["layers"]))

\* a block with an output projection narrower or wider than its last layer
\* has been called on a batch of entities
C1_Witness ==
    /\ MLPCalled /\ ValidMLPConfig(net.config)
    /\ MatchingInput(net.config, res.args.x)
    /\ res.out.ok
    /\ Len(res.args.x) = 3
    /\ net.config["layers"] # <<>>
    /\ net.config["out"] # None
    /\ net.config["out"] # Last(net.config["layers"])

DuelingReturned ==
    pc = "called" /\ res.op = "DuelingNetwork.forward" /\ res.out.ok

\* C7: the Q-values DuelingNetwork.forward returns are value + advantage -
\* mean(advantage over the actions): one value per action, differing as the
\* advantages differ, and Q - value sums to zero over the actions of a row.
C7_Identifiability ==
    DuelingReturned =>
        /\ res.out.shape = <<res.args.x[1], net.config["out"]>>
        /\ Len(res.out.q) = res.args.x[1]
        /\ \A b \in 1..Len(res.out.q) :
              LET q == res.out.q[b]
                  v == res.args.value[b]
                  adv == res.args.advantage[b]
                  n == net.config["out"]
              IN  /\ Len(q) = n
                  /\ \A a \in 1..n : q[a].den = n
                  /\ SumSeq([a \in 1..n |-> q[a].num - n * v]) = 0
                  /\ \A a1, a2 \in 1..n :
                        q[a1].num - q[a2].num = n * (adv[a1] - adv[a2])

\* a batch of two rows with unequal advantages has been recombined
C7_Witness ==
    /\ DuelingReturned
    /\ Len(res.out.q) = 2
    /\ res.args.advantage[1] = <<-1, 2>>
    /\ res.args.advantage[2] = <<2, 2>>
    /\ res.args.value[1] = 1

\* C8: constructing a MultiLayerPerceptron whose in is unset (None) fails,
\* and no MultiLayerPerceptron has a configured in of None.  (The failure is
\* taken to be any exception of the constructor; the code has no
\* ConfigurationError, an unset in is reported by nn.Linear as a TypeError.)
C8_UnsetInRejected ==
    /\ (res.op = "construct"
          /\ res.args.config["type"] = "MultiLayerPerceptron"
          /\ Get(res.args.config, "in", None) = None)
         => pc = "failed"
    /\ (net.type = "MultiLayerPerceptron" => net.config["in"] # None)

\* C10: in a constructed DuelingNetwork the advantage head and the value head
\* take inputs of the width the base module returns.
C10_HeadWidths ==
    net.type = "DuelingNetwork"
        => /\ net.advantage[1] = ModuleOutWidth(net.base_module)
           /\ net.value[1] = ModuleOutWidth(net.base_module)

----------------------------------------------------------------------------
(* Properties of the attention blocks, under SpecAttention *)

AttentionOps == {"attention", "EgoAttention.forward", "get_attention_matrix"}

\* a call that returned an attention matrix
AttentionReturned == pc = "called" /\ res.op \in AttentionOps /\ res.out.ok

\* whether the call handed a mask to attention
CallMasked ==
    CASE res.op = "attention" -> res.args.mask.present
      [] res.op = "EgoAttention.forward" -> res.args.mask.present
      [] res.op = "get_attention_matrix" -> TRUE

\* the mask of the call: true for an entity that is excluded
CallMaskRow ==
    CASE res.op = "attention" -> res.args.mask.m[1]
      [] res.op = "EgoAttention.forward" -> res.args.mask.row
      [] res.op = "get_attention_matrix" ->
            [i \in 1..Len(res.args.presence) |-> ~res.args.presence[i]]

\* the dropout factor in force in the call, as a fraction
CallDropoutFactor ==
    CASE res.op = "attention" ->
            IF res.args.dropout.present /\ res.args.dropout.module.training
            THEN res.args.dropout.module.p ELSE <<0, 1>>
      [] res.op = "EgoAttention.forward" -> net.config["dropout_factor"]
      [] res.op = "get_attention_matrix" ->
            net.config["attention_layer"]["dropout_factor"]

\* num/den < 1e-6
Below1em6(w) == w.num < (w.den + 999999) \div 1000000

\* the original statement of C2: with a mask, every masked entity gets an
\* attention weight below 1e-6 in every head, whatever the scores and
\* whatever the mask entries of the other entities.
C2_MaskedBelow ==
    (AttentionReturned /\ CallMasked) =>
        \A h \in DOMAIN res.out.attention_matrix :
            \A i \in DOMAIN CallMaskRow :
                CallMaskRow[i] => Below1em6(res.out.attention_matrix[h][i])

\* C2, amended: with a mask, a masked entity gets an attention weight below
\* 1e-6 in every head in which some entity is unmasked with a score at least
\* 14 above the fill value -1e9, provided no dropout rescales the weights.
C2_MaskedBelowAmended ==
    (AttentionReturned /\ CallMasked /\ CallDropoutFactor[1] = 0) =>
        \A h \in DOMAIN res.out.attention_matrix :
            (\E j \in DOMAIN CallMaskRow :
                /\ ~CallMaskRow[j]
                /\ res.args.scores[h][j] >= MaskedScore + 14)
            => \A i \in DOMAIN CallMaskRow :
                  CallMaskRow[i] => Below1em6(res.out.attention_matrix[h][i])

\* a masked entity with the highest score of its row has got a weight below
\* 1e-6 next to an unmasked one, through EgoAttention.forward
C2_Witness ==
    /\ AttentionReturned /\ res.op = "EgoAttention.forward"
    /\ CallMasked /\ CallDropoutFactor[1] = 0
    /\ \E i, j \in DOMAIN CallMaskRow :
          /\ CallMaskRow[i] /\ ~CallMaskRow[j]
          /\ res.args.scores[1][i] = 2
          /\ res.args.scores[1][j] = 0
          /\ Below1em6(res.out.attention_matrix[1][i])
          /\ ~Below1em6(res.out.attention_matrix[1][j])

EgoAttentionCalled == pc = "called" /\ res.op = "EgoAttention.forward"

\* a layer whose heads divide its feature size, called with ego of shape
\* (batch, 1, feature_size), others of shape (batch, n, feature_size) and a mask
WellShapedCall ==
    /\ EgoAttentionCalled
    /\ net.config["feature_size"] % net.config["heads"] = 0
    /\ res.args.ego = <<res.args.others[1], 1, net.config["feature_size"]>>
    /\ res.args.others[3] = net.config["feature_size"]
    /\ res.args.mask.present

\* the original statement of C3: a mask of shape (batch, n_others) and a mask
\* of shape (batch, n_others + 1) both lead to a successful forward pass.
C3_BothMaskShapes ==
    (WellShapedCall
        /\ res.args.mask.shape \in
              {<<res.args.others[1], res.args.others[2]>>,
               <<res.args.others[1], res.args.others[2] + 1>>})
        => res.out.ok

\* C3, amended: a mask of shape (batch, n_others + 1) leads to a successful
\* forward pass with attention weights of shape (batch, heads, 1, n_others + 1);
\* a mask of shape (batch, n_others) makes forward fail.
C3_MaskPerEntity ==
    WellShapedCall =>
        /\ res.args.mask.shape = <<res.args.others[1], res.args.others[2] + 1>>
              => /\ res.out.ok
                 /\ res.out.attn_shape =
                        <<res.args.others[1], net.config["heads"], 1,
                          res.args.others[2] + 1>>
        /\ res.args.mask.shape = <<res.args.others[1], res.args.others[2]>>
              => ~res.out.ok

\* a batch of two with one other entity and a mask entry per entity went through
C3_Witness ==
    /\ WellShapedCall
    /\ res.args.others[1] = 2
    /\ res.args.others[2] = 1
    /\ res.args.mask.shape = <<2, 2>>
    /\ res.out.ok

\* C4: a forward call made while the module is in evaluation mode returns the
\* softmax probabilities without dropout (so that two such calls on the same
\* input return the same attention weights).
C4_EvalWithoutDropout ==
    (AttentionReturned /\ res.op # "attention" /\ ~training) =>
        res.out.attention_matrix =
            attention(res.args.scores,
                      IF CallMasked
                      THEN RepeatMask(CallMaskRow, Len(res.args.scores))
                      ELSE NoMask,
                      NoDropout, res.args.keep)

\* C5: constructing an EgoAttentionNetwork leaves the embedding block's in
\* equal to the network's in if it was unset (absent or None) and unchanged
\* otherwise, the output block's in equal to attention_layer.feature_size and
\* its out equal to the network's out.
C5_CompositionRule ==
    (res.op = "construct" /\ res.args.config["type"] = "EgoAttentionNetwork") =>
        LET given == Get(res.args.config, "embedding_layer", EmptyDict)
            unset == "in" \notin DOMAIN given \/ given["in"] = None
        IN  /\ "in" \in DOMAIN config["embedding_layer"]
            /\ config["embedding_layer"]["in"] =
                  IF unset THEN config["in"] ELSE given["in"]
            /\ config["output_layer"]["in"] =
                  config["attention_layer"]["feature_size"]
            /\ config["output_layer"]["out"] = config["out"]

NetworkOps == {"EgoAttentionNetwork.forward", "get_attention_matrix"}

NetworkCalled == pc = "called" /\ res.op \in NetworkOps

\* the network's blocks fit each other and the input: the embedding block
\* does not reshape, takes the input's feature width and returns the attention
\* layer's feature size, the heads divide the feature size, and the presence
\* feature is one of the input's features
ValidNetworkCall(m, x) ==
    /\ m.ego_embedding.type = "MultiLayerPerceptron"
    /\ ~m.ego_embedding.config["reshape"]
    /\ m.ego_embedding.config["in"] = x[3]
    /\ ModuleOutWidth(m.ego_embedding) = m.attention_layer.config["feature_size"]
    /\ m.attention_layer.config["feature_size"]
          % m.attention_layer.config["heads"] = 0
    /\ 0 <= m.config["presence_feature_idx"]
    /\ m.config["presence_feature_idx"] < x[3]

\* C6: forward and get_attention_matrix succeed on an input with exactly one
\* entity (no others); the attention weights have shape (batch, heads, 1, 1)
\* and, without dropout, put weight 1 on the ego.
C6_EgoOnly ==
    (NetworkCalled /\ res.args.x[2] = 1 /\ ValidNetworkCall(net, res.args.x)) =>
        /\ res.out.ok
        /\ res.op = "EgoAttentionNetwork.forward"
              => res.out.shape =
                    <<res.args.x[1], ModuleOutWidth(net.output_layer)>>
        /\ res.op = "get_attention_matrix"
              => /\ res.out.shape =
                       <<res.args.x[1],
                         net.attention_layer.config["heads"], 1, 1>>
                 /\ CallDropoutFactor[1] = 0
                       => \A h \in DOMAIN res.out.attention_matrix :
                             res.out.attention_matrix[h][1].num =
                                 res.out.attention_matrix[h][1].den

\* get_attention_matrix has returned the weights of an ego whose presence
\* feature marks it absent, for a batch of two
C6_Witness ==
    /\ NetworkCalled /\ res.op = "get_attention_matrix"
    /\ res.args.x[1] = 2 /\ res.args.x[2] = 1
    /\ ValidNetworkCall(net, res.args.x)
    /\ res.out.ok
    /\ res.out.shape = <<2, net.attention_layer.config["heads"], 1, 1>>
    /\ ~res.args.presence[1]

\* C9: every constructed EgoAttention layer has feature_size % heads = 0 and
\* heads * features_per_head = feature_size.
C9_HeadsDivideFeatures ==
    net.type = "EgoAttention"
        => /\ net.config["feature_size"] % net.config["heads"] = 0
           /\ net.config["heads"] * net.features_per_head
                 = net.config["feature_size"]

====
